---- MODULE Spec2Model ----
(***************************************************************************)
(* Model of src/google_oauth_api.py: the OAuth2 credential lifecycle       *)
(* (Credentials, Flow, ServiceAccount) and the helper calls built on it.   *)
(*                                                                         *)
(* Time is counted in whole seconds of UTC.  A datetime is a record        *)
(* [inst, off]: the instant it denotes and the UTC offset it carries.      *)
(* An Optional value is a sequence of length 0 (None) or 1.  Strings that  *)
(* the code inspects character by character (error messages) are           *)
(* sequences of characters; opaque strings (tokens) are TLA+ strings, with *)
(* None and Absent as two values no token equals.                          *)
(*                                                                         *)
(* Every coroutine runs atomically between two awaits that may suspend it  *)
(* (asyncio): an action is the code from one such await to the next.       *)
(***************************************************************************)
EXTENDS Integers, Sequences, FiniteSets, TLC

VARIABLES
    now,      \* datetime.now(timezone.utc), in seconds
    creds,    \* the Credentials objects: "shared", and one per task built by from_dict
    sa,       \* the ServiceAccount object
    flow,     \* the Flow object (its credentials field)
    pc,       \* per task: the await at which its coroutine is suspended
    stack,    \* per task: the callers' continuations, innermost first
    res,      \* per task: what the callee that just finished returned or raised
    loc,      \* per task: the local variables of the running coroutines
    hist,     \* per task: the current top-level call, what it did and how it ended
    calls,    \* number of top-level calls started
    ticks     \* number of clock ticks taken

vars == <<now, creds, sa, flow, pc, stack, res, loc, hist, calls, ticks>>

-----------------------------------------------------------------------------
(* Bounds of the model *)

MaxRetries == 3     \* refresh is called with max_retries in 0..MaxRetries
MaxCalls == 1       \* top-level calls per behaviour on the user credential
MaxTokenCalls == 3  \* top-level calls per behaviour on the Flow and the ServiceAccount
MaxInfoCalls == 1   \* top-level calls per behaviour of the user-lookup helpers
MaxTicks == 1       \* clock ticks (of one second) per behaviour
MaxProjCalls == 1   \* top-level calls per behaviour of get_user_projects
MaxEnableCalls == 1 \* top-level calls per behaviour of enable_required_apis
MaxProjects == 3    \* length of the project lists passed to select_default_project
MaxOffsetHours == 2 \* UTC offsets of expiry strings and datetimes range over -MaxOffsetHours..MaxOffsetHours

(* Program constants *)

BufferSeconds == 180           \* timedelta(minutes=3)
DefaultMaxRetries == 3         \* refresh(max_retries=3, ...)
DefaultBaseDelay == 1          \* refresh(..., base_delay=1.0)

-----------------------------------------------------------------------------
(* Values *)

Tasks == {"t1", "t2"}
SeqTasks == {"t1"}

None == "None"          \* Python's None, where a string is expected
Absent == "Absent"      \* a key missing from a JSON object or a dict
NoTime == <<>>          \* expires_at = None
NoUrl == <<>>           \* token_endpoint = None; a URL u is <<u>>, u spelled out in characters

Truthy(s) == s # None /\ s # Absent /\ s # ""

UTC(inst) == <<[inst |-> inst, off |-> 0]>>

(* the <<max_retries, base_delay>> that callers pass to refresh *)
RefreshArgs == {<<mr, 1>> : mr \in 0..MaxRetries} \cup {<<1, 2>>}
DefaultArgs == <<DefaultMaxRetries, DefaultBaseDelay>>

UpperCase == <<"A","B","C","D","E","F","G","H","I","J","K","L","M","N","O","P","Q","R","S","T","U","V","W","X","Y","Z">>
LowerCase == <<"a","b","c","d","e","f","g","h","i","j","k","l","m","n","o","p","q","r","s","t","u","v","w","x","y","z">>

(* str.lower() *)
LowerChar(c) ==
    IF \E i \in DOMAIN UpperCase : UpperCase[i] = c
    THEN LowerCase[CHOOSE i \in DOMAIN UpperCase : UpperCase[i] = c]
    ELSE c

lower(s) == [i \in DOMAIN s |-> LowerChar(s[i])]

(* pattern in text: the substring test *)
Contains(p, s) ==
    \E i \in 0..(Len(s) - Len(p)) : \A j \in 1..Len(p) : s[i + j] = p[j]

non_retryable_patterns ==
    << <<"4","0","0"," ","B","a","d"," ","R","e","q","u","e","s","t">>,
       <<"i","n","v","a","l","i","d","_","g","r","a","n","t">>,
       <<"r","e","f","r","e","s","h","_","t","o","k","e","n","_","e","x","p","i","r","e","d">>,
       <<"i","n","v","a","l","i","d","_","r","e","f","r","e","s","h","_","t","o","k","e","n">>,
       <<"u","n","a","u","t","h","o","r","i","z","e","d","_","c","l","i","e","n","t">>,
       <<"a","c","c","e","s","s","_","d","e","n","i","e","d">>,
       <<"4","0","1"," ","U","n","a","u","t","h","o","r","i","z","e","d">> >>

(* _is_non_retryable_error without the lower-casing of the message: the test turns case-sensitive *)
is_non_retryable_error_case_sensitive(error_msg) ==
    \E i \in DOMAIN non_retryable_patterns :
        Contains(lower(non_retryable_patterns[i]), error_msg)

(* Credentials._is_non_retryable_error *)
is_non_retryable_error(error_msg) ==
    LET error_msg_lower == lower(error_msg)
    IN  \E i \in DOMAIN non_retryable_patterns :
            Contains(lower(non_retryable_patterns[i]), error_msg_lower)

(* The error messages str(e) the environment produces in this model, by    *)
(* name.  The first four carry no marker; the others carry the markers, in *)
(* the order of the list above, in varying case.  KeyError and ValueError  *)
(* are what Python raises for a body without access_token and for          *)
(* int("abc").                                                             *)
Messages ==
    [ timeout    |-> <<"t","i","m","e","o","u","t">>,
      http503    |-> <<"5","0","3"," ","S","e","r","v","i","c","e"," ","U","n","a","v","a","i","l","a","b","l","e">>,
      KeyError   |-> <<"'","a","c","c","e","s","s","_","t","o","k","e","n","'">>,
      ValueError |-> <<"i","n","v","a","l","i","d"," ","l","i","t","e","r","a","l"," ","f","o","r"," ","i","n","t","(",")">>,
      http400    |-> <<"C","l","i","e","n","t"," ","e","r","r","o","r"," ","'","4","0","0"," ","B","a","d"," ","R","e","q","u","e","s","t","'">>,
      grant      |-> <<"I","n","v","a","l","i","d","_","G","r","a","n","t">>,
      rtexpired  |-> <<"R","E","F","R","E","S","H","_","T","O","K","E","N","_","E","X","P","I","R","E","D">>,
      rtinvalid  |-> <<"i","n","v","a","l","i","d","_","r","e","f","r","e","s","h","_","t","o","k","e","n">>,
      client     |-> <<"U","n","a","u","t","h","o","r","i","z","e","d","_","C","l","i","e","n","t">>,
      denied     |-> <<"e","r","r","o","r",":"," ","a","c","c","e","s","s","_","d","e","n","i","e","d">>,
      http401    |-> <<"4","0","1"," ","U","N","A","U","T","H","O","R","I","Z","E","D">> ]

(* what the transport raises: a connection error, or raise_for_status on a non-2xx status *)
TransportMsgs ==
    {"timeout", "http400", "grant", "rtexpired", "rtinvalid", "client", "denied", "http401"}

(* the messages of the model that _is_non_retryable_error flags *)
NonRetryableMsgs == {m \in DOMAIN Messages : is_non_retryable_error(Messages[m])}

(* The token endpoint's JSON bodies.  expires_in is absent, an integer, a  *)
(* numeric string, or a string that is no number.                          *)
Body(access_token, expires_in, refresh_token) ==
    [access_token |-> access_token, expires_in |-> expires_in, refresh_token |-> refresh_token]

TokenBodies ==
    { Body("at1", <<[k |-> "int", v |-> 181]>>, Absent),
      Body("at1", <<[k |-> "str", v |-> 3600]>>, "rt1"),
      Body("at1", <<>>, None),
      Body(Absent, <<[k |-> "int", v |-> 3600]>>, "rt1"),
      Body("at1", <<[k |-> "bad", v |-> 0]>>, "rt1") }

(* int(token_data['expires_in']) *)
IntFails(e) == e.k = "bad"
IntOf(e) == e.v

-----------------------------------------------------------------------------
(* Task state *)

(* a userinfo JSON object: whether it has any key, and its email (Absent, None or a string) *)
Info(nonempty, email) == [nonempty |-> nonempty, email |-> email]
NoInfo == Info(FALSE, Absent)

NoRes == [kind |-> "none", val |-> None, etype |-> "", info |-> NoInfo, list |-> <<>>]
Ret(v) == [kind |-> "ret", val |-> v, etype |-> "", info |-> NoInfo, list |-> <<>>]
RetInfo(i) == [kind |-> "ret", val |-> "user_info", etype |-> "", info |-> i, list |-> <<>>]
RetList(ps) == [kind |-> "ret", val |-> "list", etype |-> "", info |-> NoInfo, list |-> ps]
Raise(ty) == [kind |-> "exc", val |-> None, etype |-> ty, info |-> NoInfo, list |-> <<>>]

Loc0 ==
    [self |-> "shared", data_rt |-> None, attempt |-> 0, max_retries |-> 0,
     base_delay |-> 0, last_exception |-> "", delay |-> 0, service |-> 0,
     projects |-> <<>>, data |-> <<>>, assertion |-> <<>>, token_url |-> <<>>]

Snapshot(self) == [cred |-> creds[self], sa |-> sa, flow |-> flow]

(* an event of a call: in attempt k a request is sent ("req", carrying refresh token   *)
(* rt), the attempt fails ("fail") or succeeds ("ok"), a sleep of d seconds starts     *)
Ev(ev, k, d, rt) == [ev |-> ev, k |-> k, d |-> d, rt |-> rt]

NoBody == Body(Absent, <<>>, Absent)

(* an HTTP response of a Google API: its status code and what its JSON body holds *)
Response(status, projects) == [status |-> status, projects |-> projects]
NoResponse == Response(0, <<>>)

(* the task goes on at label with continuations k, locals l, history h, callee result r *)
Ctl(t, label, k, l, h, r) ==
    /\ pc' = [pc EXCEPT ![t] = label]
    /\ stack' = [stack EXCEPT ![t] = k]
    /\ loc' = [loc EXCEPT ![t] = l]
    /\ hist' = [hist EXCEPT ![t] = h]
    /\ res' = [res EXCEPT ![t] = r]

(* a coroutine returns or raises r: its caller goes on, or the top-level call is over *)
Finish(t, k, l, h, r) ==
    IF k = <<>>
    THEN Ctl(t, "idle", <<>>, l, [h EXCEPT !.result = r], NoRes)
    ELSE Ctl(t, Head(k), Tail(k), l, h, r)

(* a top-level call op on credential object self starts *)
Begin(op, self, args) ==
    [op |-> op, args |-> args, t0 |-> now, pre |-> Snapshot(self), trace |-> <<>>, last |-> "",
     okAt |-> 0, okBody |-> NoBody, okInfo |-> NoInfo, okResp |-> NoResponse, result |-> NoRes]

CanCall(t) == pc[t] = "idle" /\ calls < MaxCalls
CanCallToken(t) == pc[t] = "idle" /\ calls < MaxTokenCalls
CanCallInfo(t) == pc[t] = "idle" /\ calls < MaxInfoCalls
CanCallProj(t) == pc[t] = "idle" /\ calls < MaxProjCalls
CanCallEnable(t) == pc[t] = "idle" /\ calls < MaxEnableCalls
\* the concurrent callers are the tasks; each makes one call on the shared credential
CanCallConc(t) == pc[t] = "idle" /\ hist[t].op = "none"

-----------------------------------------------------------------------------
(* Credentials *)

(* is_expired with < for <=: the instant now + 3 minutes itself counts as not expired *)
is_expired_strict(c, n) ==
    IF c.expires_at = NoTime
    THEN TRUE
    ELSE (c.expires_at[1].inst - BufferSeconds) < n

(* Credentials.is_expired, at clock n *)
is_expired(c, n) ==
    IF c.expires_at = NoTime
    THEN TRUE
    ELSE (c.expires_at[1].inst - BufferSeconds) <= n

(* Credentials.refresh on credential c, up to its first await: the refresh_token check *)
(* and the request data                                                               *)
EnterRefresh(t, k, l, c, mr, bd, h) ==
    IF ~Truthy(c.refresh_token)
    THEN Finish(t, k, l, h, Raise("TokenError"))
    ELSE Ctl(t, "rf_send", k,
             [l EXCEPT !.data_rt = c.refresh_token, !.attempt = 0,
                       !.max_retries = mr, !.base_delay = bd],
             h, NoRes)

(* refresh_if_needed without its expiry test: it refreshes whenever there is a refresh_token *)
EnterRefreshIfNeeded_unconditional(t, k, l, c, h) ==
    IF ~Truthy(c.refresh_token)
    THEN Finish(t, k, l, h, Raise("TokenError"))
    ELSE EnterRefresh(t, <<"rin_ret">> \o k, l, c, DefaultMaxRetries, DefaultBaseDelay, h)

(* refresh_if_needed leaving the refresh to a caller that already has one under way *)
EnterRefreshIfNeeded_single_flight(t, k, l, c, h) ==
    IF ~is_expired(c, now)
    THEN Finish(t, k, l, h, Ret("False"))
    ELSE IF ~Truthy(c.refresh_token)
    THEN Finish(t, k, l, h, Raise("TokenError"))
    ELSE IF \E u \in Tasks \ {t} : pc[u] \in {"rf_send", "rf_wait", "rf_sleep"}
    THEN Finish(t, k, l, h, Ret("False"))
    ELSE EnterRefresh(t, <<"rin_ret">> \o k, l, c, DefaultMaxRetries, DefaultBaseDelay, h)

(* Credentials.refresh_if_needed on credential c, up to its first await *)
EnterRefreshIfNeeded(t, k, l, c, h) ==
    IF ~is_expired(c, now)
    THEN Finish(t, k, l, h, Ret("False"))
    ELSE IF ~Truthy(c.refresh_token)
    THEN Finish(t, k, l, h, Raise("TokenError"))
    ELSE EnterRefresh(t, <<"rin_ret">> \o k, l, c, DefaultMaxRetries, DefaultBaseDelay, h)

(* the locals of refresh are dead once it has returned or raised *)
LeaveRefresh(l) ==
    [l EXCEPT !.data_rt = None, !.attempt = 0, !.max_retries = 0, !.base_delay = 0,
              !.last_exception = "", !.delay = 0]

(* refresh, lines 72-78: the token request of this attempt is sent *)
RefreshSend(t) ==
    /\ pc[t] = "rf_send"
    /\ Ctl(t, "rf_wait", stack[t], loc[t],
           [hist[t] EXCEPT !.trace = Append(@, Ev("req", loc[t].attempt, 0, loc[t].data_rt))],
           NoRes)
    /\ UNCHANGED <<now, creds, sa, flow, calls, ticks>>

(* linear instead of exponential backoff *)
BackoffDelay_linear(base_delay, attempt) == base_delay * (attempt + 1)

(* refresh, line 108: the delay before the retry that follows attempt *)
BackoffDelay(base_delay, attempt) == base_delay * (2 ^ attempt)

(* refresh, lines 97-112: the except clause, for the exception whose str() is Messages[m] *)
RefreshFailed(t, m) ==
    LET l == [loc[t] EXCEPT !.last_exception = m]
        h == [hist[t] EXCEPT !.trace = Append(@, Ev("fail", l.attempt, 0, l.data_rt)), !.last = m]
        delay == BackoffDelay(l.base_delay, l.attempt)
    IN  IF m \in NonRetryableMsgs
        THEN Finish(t, stack[t], LeaveRefresh(l), h, Raise("TokenError"))
        ELSE IF l.attempt < l.max_retries
        THEN Ctl(t, "rf_sleep", stack[t], [l EXCEPT !.delay = delay],
                 [h EXCEPT !.trace = Append(@, Ev("sleep", l.attempt, delay, l.data_rt))],
                 NoRes)
        ELSE Finish(t, stack[t], LeaveRefresh(l), h, Raise("TokenError"))

(* refresh, lines 74-79: post_async or raise_for_status raises *)
RefreshRespError(t) ==
    /\ pc[t] = "rf_wait"
    /\ \E m \in TransportMsgs : RefreshFailed(t, m)
    /\ UNCHANGED <<now, creds, sa, flow, calls, ticks>>

(* lines 82-89 with token_data.get('refresh_token') stored unconditionally: a response *)
(* without refresh_token erases the one held                                          *)
ApplyBody_get(c, body, n) ==
    LET c1 == [c EXCEPT !.access_token = body.access_token]
        c2 == IF body.expires_in # <<>>
              THEN [c1 EXCEPT !.expires_at = UTC(n + IntOf(body.expires_in[1]))]
              ELSE c1
        c3 == [c2 EXCEPT !.refresh_token = IF body.refresh_token = Absent THEN None
                                           ELSE body.refresh_token]
    IN  IF body.access_token = Absent THEN c
        ELSE IF body.expires_in # <<>> /\ IntFails(body.expires_in[1]) THEN c1
        ELSE c3

(* lines 82-89: the fields of credential c after the body is processed, as far as it gets *)
ApplyBody(c, body, n) ==
    LET c1 == [c EXCEPT !.access_token = body.access_token]
        c2 == IF body.expires_in # <<>>
              THEN [c1 EXCEPT !.expires_at = UTC(n + IntOf(body.expires_in[1]))]
              ELSE c1
        c3 == IF body.refresh_token # Absent
              THEN [c2 EXCEPT !.refresh_token = body.refresh_token]
              ELSE c2
    IN  IF body.access_token = Absent THEN c
        ELSE IF body.expires_in # <<>> /\ IntFails(body.expires_in[1]) THEN c1
        ELSE c3

(* the exception lines 82-89 raise on the body, "" if none *)
BodyError(body) ==
    IF body.access_token = Absent THEN "KeyError"
    ELSE IF body.expires_in # <<>> /\ IntFails(body.expires_in[1]) THEN "ValueError"
    ELSE ""

(* refresh, lines 79-95: a 2xx response arrives and its body is processed *)
RefreshRespBody(t) ==
    /\ pc[t] = "rf_wait"
    /\ \E body \in TokenBodies :
          /\ creds' = [creds EXCEPT ![loc[t].self] = ApplyBody(@, body, now)]
          /\ IF BodyError(body) # ""
             THEN RefreshFailed(t, BodyError(body))
             ELSE Finish(t, stack[t], LeaveRefresh(loc[t]),
                         [hist[t] EXCEPT !.trace = Append(@, Ev("ok", loc[t].attempt, 0, loc[t].data_rt)),
                                         !.okAt = now, !.okBody = body],
                         Ret(None))
    /\ UNCHANGED <<now, sa, flow, calls, ticks>>

(* refresh, line 110: asyncio.sleep(delay) is over, the loop goes on with the next attempt *)
RefreshWake(t) ==
    /\ pc[t] = "rf_sleep"
    /\ now' = now + loc[t].delay
    /\ Ctl(t, "rf_send", stack[t], [loc[t] EXCEPT !.attempt = @ + 1, !.delay = 0], hist[t], NoRes)
    /\ UNCHANGED <<creds, sa, flow, calls, ticks>>

(* refresh_if_needed, lines 54-55: refresh() has returned or raised *)
RefreshIfNeededRet(t) ==
    /\ pc[t] = "rin_ret"
    /\ IF res[t].kind = "exc"
       THEN Finish(t, stack[t], loc[t], hist[t], res[t])
       ELSE Finish(t, stack[t], loc[t], hist[t], Ret("True"))
    /\ UNCHANGED <<now, creds, sa, flow, calls, ticks>>

(* a caller calls credentials.refresh(max_retries, base_delay) *)
CallRefresh(t) ==
    /\ CanCall(t)
    /\ \E a \in RefreshArgs :
          EnterRefresh(t, <<>>, [Loc0 EXCEPT !.self = "shared"], creds["shared"], a[1], a[2],
                       Begin("refresh", "shared", a))
    /\ calls' = calls + 1
    /\ UNCHANGED <<now, creds, sa, flow, ticks>>

(* a caller calls credentials.refresh_if_needed() *)
CallRefreshIfNeeded(t) ==
    /\ CanCall(t)
    /\ EnterRefreshIfNeeded(t, <<>>, [Loc0 EXCEPT !.self = "shared"], creds["shared"],
                            Begin("refresh_if_needed", "shared", DefaultArgs))
    /\ calls' = calls + 1
    /\ UNCHANGED <<now, creds, sa, flow, ticks>>

(* the <<max_retries, base_delay>> that concurrent callers pass to refresh *)
ConcArgs == {<<0, 1>>, <<1, 1>>}

(* one of several concurrent callers calls credentials.refresh(max_retries, base_delay) *)
ConcCallRefresh(t) ==
    /\ CanCallConc(t)
    /\ \E a \in ConcArgs :
          EnterRefresh(t, <<>>, [Loc0 EXCEPT !.self = "shared"], creds["shared"], a[1], a[2],
                       Begin("refresh", "shared", a))
    /\ calls' = calls + 1
    /\ UNCHANGED <<now, creds, sa, flow, ticks>>

(* one of several concurrent callers calls credentials.refresh_if_needed() *)
ConcCallRefreshIfNeeded(t) ==
    /\ CanCallConc(t)
    /\ EnterRefreshIfNeeded(t, <<>>, [Loc0 EXCEPT !.self = "shared"], creds["shared"],
                            Begin("refresh_if_needed", "shared", DefaultArgs))
    /\ calls' = calls + 1
    /\ UNCHANGED <<now, creds, sa, flow, ticks>>

(* a caller calls credentials.is_expired() *)
CallIsExpired(t) ==
    /\ CanCall(t)
    /\ Finish(t, <<>>, [Loc0 EXCEPT !.self = "shared"], Begin("is_expired", "shared", DefaultArgs),
              Ret(IF is_expired(creds["shared"], now) THEN "True" ELSE "False"))
    /\ calls' = calls + 1
    /\ UNCHANGED <<now, creds, sa, flow, ticks>>

(* the clock advances by a second, while a request is in flight or between two calls *)
Tick ==
    /\ ticks < MaxTicks
    /\ \A t \in Tasks : pc[t] \in {"idle", "rf_wait", "fx_wait", "sa_wait", "ui_wait",
                                 "up_wait", "ea_check", "ea_enable"}
    /\ now' = now + 1
    /\ ticks' = ticks + 1
    /\ UNCHANGED <<creds, sa, flow, pc, stack, res, loc, hist, calls>>

(* Credentials.__init__ *)
Credentials(access_token, refresh_token, client_id, client_secret, expires_at, project_id) ==
    [access_token |-> access_token, refresh_token |-> refresh_token, client_id |-> client_id,
     client_secret |-> client_secret, expires_at |-> expires_at, project_id |-> project_id]

NoCred == Credentials("", None, None, None, NoTime, None)

(* dict.get(key): None for a missing key *)
Get(v) == IF v = Absent THEN None ELSE v

(* An expiry string of a record, by its shape: "Z" (UTC-suffixed), "plus" and "minus"   *)
(* (offset-qualified, the offset off seconds east or west), "naive", "bad" (no ISO-8601 *)
(* date), "empty" (the empty string), "absent" (no such key); local is the date and     *)
(* time it shows, in seconds.                                                           *)
Expiry(shape, local, off) == [shape |-> shape, local |-> local, off |-> off]

(* Credentials.from_dict, lines 142-154: the expiry string parsed *)
ParseExpiry(e) ==
    CASE e.shape \in {"absent", "empty"} -> NoTime
      [] e.shape = "Z" -> <<[inst |-> e.local, off |-> 0]>>
      [] e.shape = "plus" -> <<[inst |-> e.local - e.off, off |-> e.off]>>
      [] e.shape \in {"naive", "minus"} -> <<[inst |-> e.local, off |-> 0]>>
      [] OTHER -> NoTime

(* Credentials.from_dict *)
from_dict(data) ==
    Credentials(IF Truthy(data.token) THEN data.token
                ELSE IF data.access_token = Absent THEN "" ELSE data.access_token,
                Get(data.refresh_token), Get(data.client_id), Get(data.client_secret),
                ParseExpiry(data.expiry), Get(data.project_id))

(* datetime.isoformat() of an aware datetime: the local date and time followed by the *)
(* offset, written +HH:MM or -HH:MM                                                  *)
isoformat(dt) ==
    Expiry(IF dt.off < 0 THEN "minus" ELSE "plus", dt.inst + dt.off, dt.off)

(* Credentials.to_dict *)
to_dict(self) ==
    [token |-> Absent, access_token |-> self.access_token, refresh_token |-> self.refresh_token,
     client_id |-> self.client_id, client_secret |-> self.client_secret,
     expiry |-> IF self.expires_at # NoTime THEN isoformat(self.expires_at[1])
                ELSE Expiry("absent", 0, 0),
     project_id |-> self.project_id]

(* the UTC offsets, in seconds *)
Offsets == {3600 * k : k \in (0 - MaxOffsetHours)..MaxOffsetHours}

(* the credentials whose to_dict() callers store *)
DictCreds ==
    {Credentials(at, rt, "cid", "secret", e, pr) :
        at \in {"at0", "", None}, rt \in {None, "rt0"}, pr \in {None, "proj"},
        e \in {NoTime} \cup {<<[inst |-> i, off |-> o]>> : i \in {0, 7200}, o \in Offsets}}

(* the expiry strings of the records that callers pass to from_dict; an offset-qualified *)
(* string shows the local time and the offset, negative for "minus"                    *)
ExpiryStrings ==
    {Expiry("Z", l, 0) : l \in {0, 7200}}
    \cup {Expiry("naive", l, 0) : l \in {0, 7200}}
    \cup {Expiry(IF o < 0 THEN "minus" ELSE "plus", l, o) : l \in {0, 7200}, o \in Offsets}
    \cup {Expiry("bad", 0, 0), Expiry("empty", 0, 0), Expiry("absent", 0, 0)}

(* a caller calls credentials.to_dict() and keeps the record *)
CallToDict(t) ==
    /\ pc[t] = "idle" /\ loc[t].data = <<>>
    /\ Finish(t, <<>>, [loc[t] EXCEPT !.data = <<to_dict(creds["shared"])>>],
              Begin("to_dict", "shared", DefaultArgs), Ret("dict"))
    /\ calls' = calls + 1
    /\ UNCHANGED <<now, creds, sa, flow, ticks>>

(* a caller calls Credentials.from_dict(data) on the record it holds *)
CallFromDict(t) ==
    /\ pc[t] = "idle" /\ loc[t].data # <<>> /\ hist[t].op # "from_dict"
    /\ creds' = [creds EXCEPT ![t] = from_dict(loc[t].data[1])]
    /\ Finish(t, <<>>, loc[t], Begin("from_dict", "shared", DefaultArgs), Ret("credentials"))
    /\ calls' = calls + 1
    /\ UNCHANGED <<now, sa, flow, ticks>>

-----------------------------------------------------------------------------
(* The helper calls on a user credential *)

UserInfos ==
    {Info(TRUE, "user@example.com"), Info(TRUE, ""), Info(TRUE, None), Info(TRUE, Absent),
     Info(FALSE, Absent)}

(* get_user_info, line 350: refresh_if_needed() is awaited, outside the try *)
EnterUserInfo(t, k, l, c, h) == EnterRefreshIfNeeded(t, <<"ui_after_rin">> \o k, l, c, h)

(* get_user_info, lines 350-358: refresh_if_needed() has returned or raised; the GET is sent *)
UserInfoSend(t) ==
    /\ pc[t] = "ui_after_rin"
    /\ IF res[t].kind = "exc"
       THEN Finish(t, stack[t], loc[t], hist[t], res[t])
       ELSE Ctl(t, "ui_wait", stack[t], loc[t],
                [hist[t] EXCEPT !.trace = Append(@, Ev("get", 0, 0, creds[loc[t].self].access_token))],
                NoRes)
    /\ UNCHANGED <<now, creds, sa, flow, calls, ticks>>

(* get_user_info, lines 355-363: get_async or raise_for_status raises *)
UserInfoRespError(t) ==
    /\ pc[t] = "ui_wait"
    /\ Finish(t, stack[t], loc[t], hist[t], Ret(None))
    /\ UNCHANGED <<now, creds, sa, flow, calls, ticks>>

(* get_user_info, lines 359-360: a 2xx response arrives, its JSON is returned *)
UserInfoRespBody(t) ==
    /\ pc[t] = "ui_wait"
    /\ \E i \in UserInfos :
          Finish(t, stack[t], loc[t], [hist[t] EXCEPT !.okInfo = i], RetInfo(i))
    /\ UNCHANGED <<now, creds, sa, flow, calls, ticks>>

(* get_user_email, lines 368-370: refresh_if_needed() is awaited, inside the try *)
EnterUserEmail(t, k, l, c, h) == EnterRefreshIfNeeded(t, <<"ue_after_rin">> \o k, l, c, h)

(* get_user_email with refresh_if_needed() awaited outside its try: a TokenError gets out *)
UserEmailAfterRefresh_uncaught(t) ==
    /\ pc[t] = "ue_after_rin"
    /\ IF res[t].kind = "exc"
       THEN Finish(t, stack[t], loc[t], hist[t], res[t])
       ELSE EnterUserInfo(t, <<"ue_after_ui">> \o stack[t], loc[t], creds[loc[t].self], hist[t])
    /\ UNCHANGED <<now, creds, sa, flow, calls, ticks>>

(* get_user_email, lines 370-373 and 386-388: refresh_if_needed() is over, get_user_info is called *)
UserEmailAfterRefresh(t) ==
    /\ pc[t] = "ue_after_rin"
    /\ IF res[t].kind = "exc"
       THEN Finish(t, stack[t], loc[t], hist[t], Ret(None))
       ELSE EnterUserInfo(t, <<"ue_after_ui">> \o stack[t], loc[t], creds[loc[t].self], hist[t])
    /\ UNCHANGED <<now, creds, sa, flow, calls, ticks>>

(* get_user_email, lines 373-388: get_user_info is over, the email is taken from its result *)
UserEmailAfterInfo(t) ==
    /\ pc[t] = "ue_after_ui"
    /\ IF res[t].kind = "exc"
       THEN Finish(t, stack[t], loc[t], hist[t], Ret(None))
       ELSE IF res[t].val # None /\ res[t].info.nonempty /\ Truthy(Get(res[t].info.email))
       THEN Finish(t, stack[t], loc[t], hist[t], Ret(res[t].info.email))
       ELSE Finish(t, stack[t], loc[t], hist[t], Ret(None))
    /\ UNCHANGED <<now, creds, sa, flow, calls, ticks>>

(* fetch_user_email_from_file, line 401 to 405: get_user_email is over; the credentials *)
(* object built from the record is dropped with the frame                               *)
EmailFromFileRet(t) ==
    /\ pc[t] = "ff_after_ue"
    /\ IF res[t].kind = "exc"
       THEN Finish(t, stack[t], Loc0, hist[t], Ret(None))
       ELSE Finish(t, stack[t], Loc0, hist[t], res[t])
    /\ creds' = [creds EXCEPT ![t] = NoCred]
    /\ UNCHANGED <<now, sa, flow, calls, ticks>>

(* a caller calls get_user_info(credentials) *)
CallUserInfo(t) ==
    /\ CanCallInfo(t)
    /\ EnterUserInfo(t, <<>>, [Loc0 EXCEPT !.self = "shared"], creds["shared"],
                     Begin("get_user_info", "shared", DefaultArgs))
    /\ calls' = calls + 1
    /\ UNCHANGED <<now, creds, sa, flow, ticks>>

(* a caller calls get_user_email(credentials) *)
CallUserEmail(t) ==
    /\ CanCallInfo(t)
    /\ EnterUserEmail(t, <<>>, [Loc0 EXCEPT !.self = "shared"], creds["shared"],
                      Begin("get_user_email", "shared", DefaultArgs))
    /\ calls' = calls + 1
    /\ UNCHANGED <<now, creds, sa, flow, ticks>>

(* the records that callers pass to fetch_user_email_from_file *)
RecordOf(token, access_token, refresh_token, expiry) ==
    [token |-> token, access_token |-> access_token, refresh_token |-> refresh_token,
     client_id |-> "cid", client_secret |-> "secret", expiry |-> expiry, project_id |-> Absent]

Records ==
    { RecordOf("at0", Absent, "rt0", Expiry("Z", 3600, 0)),
      RecordOf(Absent, "at0", "rt0", Expiry("naive", 100, 0)),
      RecordOf("at0", Absent, Absent, Expiry("bad", 0, 0)),
      RecordOf(Absent, Absent, "rt0", Expiry("absent", 0, 0)),
      RecordOf("", None, "rt0", Expiry("Z", 3600, 0)) }

(* a caller calls fetch_user_email_from_file(cred_data) *)
CallEmailFromFile(t) ==
    /\ CanCallInfo(t)
    /\ \E data \in Records :
          LET credentials == from_dict(data)
              h == [Begin("fetch_user_email_from_file", "shared", DefaultArgs)
                        EXCEPT !.pre = [cred |-> credentials, sa |-> sa, flow |-> flow]]
          IN  IF ~Truthy(credentials.access_token)
              THEN /\ creds' = creds
                   /\ Finish(t, <<>>, Loc0, h, Ret(None))
              ELSE /\ creds' = [creds EXCEPT ![t] = credentials]
                   /\ EnterUserEmail(t, <<"ff_after_ue">>, [Loc0 EXCEPT !.self = t], credentials, h)
    /\ calls' = calls + 1
    /\ UNCHANGED <<now, sa, flow, ticks>>

-----------------------------------------------------------------------------
(* Flow *)

(* Flow.exchange_code, lines 218-233: the request is sent, one attempt *)
CallExchangeCode(t) ==
    /\ CanCallToken(t)
    /\ Ctl(t, "fx_wait", <<>>, Loc0,
           [Begin("exchange_code", "shared", DefaultArgs) EXCEPT !.trace = <<Ev("req", 0, 0, None)>>],
           NoRes)
    /\ calls' = calls + 1
    /\ UNCHANGED <<now, creds, sa, flow, ticks>>

(* Flow.exchange_code, lines 229-234 and 255-258: post_async or raise_for_status raises *)
ExchangeCodeRespError(t) ==
    /\ pc[t] = "fx_wait"
    /\ \E m \in TransportMsgs :
          Finish(t, stack[t], loc[t],
                 [hist[t] EXCEPT !.trace = Append(@, Ev("fail", 0, 0, None)), !.last = m],
                 Raise("TokenError"))
    /\ UNCHANGED <<now, creds, sa, flow, calls, ticks>>

(* Flow.exchange_code, lines 236-258: a 2xx response arrives and its body is processed *)
ExchangeCodeRespBody(t) ==
    /\ pc[t] = "fx_wait"
    /\ \E body \in TokenBodies :
          LET expires_at == IF body.expires_in # <<>>
                            THEN UTC(now + IntOf(body.expires_in[1]))
                            ELSE NoTime
              failure == IF body.expires_in # <<>> /\ IntFails(body.expires_in[1]) THEN "ValueError"
                         ELSE IF body.access_token = Absent THEN "KeyError"
                         ELSE ""
          IN  IF failure # ""
              THEN /\ flow' = flow
                   /\ Finish(t, stack[t], loc[t],
                             [hist[t] EXCEPT !.trace = Append(@, Ev("fail", 0, 0, None)), !.last = failure],
                             Raise("TokenError"))
              ELSE /\ flow' = [flow EXCEPT !.credentials =
                                  <<Credentials(body.access_token, Get(body.refresh_token),
                                                flow.client_id, flow.client_secret, expires_at, None)>>]
                   /\ Finish(t, stack[t], loc[t],
                             [hist[t] EXCEPT !.trace = Append(@, Ev("ok", 0, 0, None)),
                                             !.okAt = now, !.okBody = body],
                             Ret("credentials"))
    /\ UNCHANGED <<now, creds, sa, calls, ticks>>

-----------------------------------------------------------------------------
(* ServiceAccount *)

(* ServiceAccount.is_expired without the 3-minute buffer *)
sa_is_expired_no_buffer(a, n) ==
    IF a.expires_at = NoTime
    THEN TRUE
    ELSE a.expires_at[1].inst <= n

(* ServiceAccount.is_expired, at clock n *)
sa_is_expired(a, n) ==
    IF a.expires_at = NoTime
    THEN TRUE
    ELSE (a.expires_at[1].inst - BufferSeconds) <= n

(* a caller calls service_account.is_expired() *)
CallSAIsExpired(t) ==
    /\ CanCallToken(t)
    /\ Finish(t, <<>>, Loc0, Begin("sa_is_expired", "shared", DefaultArgs),
              Ret(IF sa_is_expired(sa, now) THEN "True" ELSE "False"))
    /\ calls' = calls + 1
    /\ UNCHANGED <<now, creds, sa, flow, ticks>>

(* what get_oauth_proxy_url() returns: the configured base URL, with or without a *)
(* trailing slash                                                                 *)
OAuthBaseUrls ==
    { <<"h","t","t","p","s",":","/","/","o","a","u","t","h","2",".","g","o","o","g","l","e","a","p","i","s",".","c","o","m">>,
      <<"h","t","t","p","s",":","/","/","p","r","o","x","y",".","l","o","c","a","l","/","o","a","u","t","h","/">> }

(* str.rstrip('/') *)
RECURSIVE rstrip(_)
rstrip(s) ==
    IF s # <<>> /\ s[Len(s)] = "/" THEN rstrip(SubSeq(s, 1, Len(s) - 1)) ELSE s

(* lines 314 (and 73, 228): token_url *)
TokenUrl(oauth_base_url) == rstrip(oauth_base_url) \o <<"/","t","o","k","e","n">>

(* ' '.join(scopes); a scope is a string spelled out in characters *)
RECURSIVE join(_)
join(scopes) ==
    IF scopes = <<>> THEN <<>>
    ELSE IF Len(scopes) = 1 THEN scopes[1]
    ELSE scopes[1] \o <<" ">> \o join(Tail(scopes))

(* ServiceAccount.create_jwt at time n: the payload, signed with the private key *)
create_jwt(self, n) ==
    [ payload |-> [ iss |-> self.email,
                    scope |-> IF self.scopes # <<>> THEN join(self.scopes) ELSE <<>>,
                    aud |-> self.token_endpoint,
                    exp |-> n + 3600,
                    iat |-> n ],
      key |-> self.private_key,
      algorithm |-> "RS256" ]

(* ServiceAccount.get_access_token, lines 302-319: the cache test, the assertion and    *)
(* the request                                                                          *)
CallGetAccessToken(t) ==
    /\ CanCallToken(t)
    /\ LET h == Begin("get_access_token", "shared", DefaultArgs)
       IN  IF ~sa_is_expired(sa, now) /\ Truthy(sa.access_token)
           THEN Finish(t, <<>>, Loc0, h, Ret(sa.access_token))
           ELSE \E oauth_base_url \in OAuthBaseUrls :
                   Ctl(t, "sa_wait", <<>>,
                       [Loc0 EXCEPT !.assertion = <<create_jwt(sa, now)>>,
                                    !.token_url = TokenUrl(oauth_base_url)],
                       [h EXCEPT !.trace = <<Ev("req", 0, 0, None)>>], NoRes)
    /\ calls' = calls + 1
    /\ UNCHANGED <<now, creds, sa, flow, ticks>>

(* get_access_token retrying a failed request once instead of raising *)
GetAccessTokenRespError_retry(t) ==
    /\ pc[t] = "sa_wait"
    /\ IF Len(hist[t].trace) < 3
       THEN Ctl(t, "sa_wait", stack[t], loc[t],
                [hist[t] EXCEPT !.trace = @ \o <<Ev("fail", 0, 0, None), Ev("req", 1, 0, None)>>],
                NoRes)
       ELSE Finish(t, stack[t], loc[t],
                   [hist[t] EXCEPT !.trace = Append(@, Ev("fail", 1, 0, None)), !.last = "timeout"],
                   Raise("TokenError"))
    /\ UNCHANGED <<now, creds, sa, flow, calls, ticks>>

(* get_access_token, lines 315-320 and 331-334: post_async or raise_for_status raises *)
GetAccessTokenRespError(t) ==
    /\ pc[t] = "sa_wait"
    /\ \E m \in TransportMsgs :
          Finish(t, stack[t], Loc0,
                 [hist[t] EXCEPT !.trace = Append(@, Ev("fail", 0, 0, None)), !.last = m],
                 Raise("TokenError"))
    /\ UNCHANGED <<now, creds, sa, flow, calls, ticks>>

(* lines 323-327: the fields of service account a after the body is processed, as far as it gets *)
SAApplyBody(a, body, n) ==
    LET a1 == [a EXCEPT !.access_token = body.access_token]
        a2 == IF body.expires_in # <<>>
              THEN [a1 EXCEPT !.expires_at = UTC(n + IntOf(body.expires_in[1]))]
              ELSE a1
    IN  IF body.access_token = Absent THEN a
        ELSE IF body.expires_in # <<>> /\ IntFails(body.expires_in[1]) THEN a1
        ELSE a2

(* get_access_token, lines 320-334: a 2xx response arrives and its body is processed *)
GetAccessTokenRespBody(t) ==
    /\ pc[t] = "sa_wait"
    /\ \E body \in TokenBodies :
          /\ sa' = SAApplyBody(sa, body, now)
          /\ IF BodyError(body) # ""
             THEN Finish(t, stack[t], Loc0,
                         [hist[t] EXCEPT !.trace = Append(@, Ev("fail", 0, 0, None)),
                                         !.last = BodyError(body)],
                         Raise("TokenError"))
             ELSE Finish(t, stack[t], Loc0,
                         [hist[t] EXCEPT !.trace = Append(@, Ev("ok", 0, 0, None)),
                                         !.okAt = now, !.okBody = body],
                         Ret(body.access_token))
    /\ UNCHANGED <<now, creds, flow, calls, ticks>>

-----------------------------------------------------------------------------
(* The project helpers *)

(* a value of a dict whose key may be missing: Has(v), or Missing *)
Has(v) == <<v>>
Missing == <<>>

(* dict.get(key, default) *)
GetOr(v, default) == IF v = Missing THEN default ELSE v[1]

(* a project record of the Resource Manager API: projectId and displayName are strings *)
(* spelled out in characters, or Missing; lifecycleState is a state name, or Absent    *)
Project(projectId, displayName, lifecycleState) ==
    [projectId |-> projectId, displayName |-> displayName, lifecycleState |-> lifecycleState]

p1 == Project(Has(<<"p","1">>), Missing, "ACTIVE")
p2 == Project(Has(<<"p","2">>), Missing, "DELETE_REQUESTED")
p3 == Project(Has(<<"p","3">>), Missing, Absent)
p4 == Project(Has(<<"p","4">>), Has(<<"F","o","u","r">>), "ACTIVE")

(* the responses to the projects GET; a body without the key 'projects' reads as the *)
(* empty list (data.get('projects', []))                                             *)
ProjectsResponses ==
    { Response(200, <<p1, p2, p4>>), Response(200, <<p4, p3, p1>>), Response(200, <<p2, p3>>),
      Response(200, <<>>), Response(403, <<p1>>) }

(* get_user_projects returning every project of the response, whatever its state *)
ActiveProjects_all(projects) == projects

(* get_user_projects, lines 509-512: the projects whose lifecycleState is 'ACTIVE' *)
ActiveProjects(projects) ==
    SelectSeq(projects, LAMBDA project : project.lifecycleState = "ACTIVE")

(* get_user_projects, lines 490-499: the headers are built from the access token held *)
(* and the projects GET is sent                                                       *)
UserProjectsSend(t, k, l, c, h) ==
    Ctl(t, "up_wait", k, l, [h EXCEPT !.trace = Append(@, Ev("get", 0, 0, c.access_token))], NoRes)

(* get_user_projects on credential c, lines 485-499, up to its first await *)
EnterUserProjects(t, k, l, c, h) ==
    IF is_expired(c, now) /\ Truthy(c.refresh_token)
    THEN EnterRefresh(t, <<"up_after_rf">> \o k, l, c, DefaultMaxRetries, DefaultBaseDelay, h)
    ELSE UserProjectsSend(t, k, l, c, h)

(* get_user_projects, lines 488-499 and 519-521: refresh() has returned or raised *)
UserProjectsAfterRefresh(t) ==
    /\ pc[t] = "up_after_rf"
    /\ IF res[t].kind = "exc"
       THEN Finish(t, stack[t], loc[t], hist[t], RetList(<<>>))
       ELSE UserProjectsSend(t, stack[t], loc[t], creds[loc[t].self], hist[t])
    /\ UNCHANGED <<now, creds, sa, flow, calls, ticks>>

(* get_user_projects, lines 499 and 519-521: get_async raises *)
UserProjectsRespError(t) ==
    /\ pc[t] = "up_wait"
    /\ Finish(t, stack[t], loc[t], hist[t], RetList(<<>>))
    /\ UNCHANGED <<now, creds, sa, flow, calls, ticks>>

(* get_user_projects, lines 501-517: a response arrives *)
UserProjectsResp(t) ==
    /\ pc[t] = "up_wait"
    /\ \E response \in ProjectsResponses :
          Finish(t, stack[t], loc[t], [hist[t] EXCEPT !.okResp = response],
                 IF response.status = 200
                 THEN RetList(ActiveProjects(response.projects))
                 ELSE RetList(<<>>))
    /\ UNCHANGED <<now, creds, sa, flow, calls, ticks>>

(* a caller calls get_user_projects(credentials) *)
CallUserProjects(t) ==
    /\ CanCallProj(t)
    /\ EnterUserProjects(t, <<>>, [Loc0 EXCEPT !.self = "shared"], creds["shared"],
                         Begin("get_user_projects", "shared", DefaultArgs))
    /\ calls' = calls + 1
    /\ UNCHANGED <<now, creds, sa, flow, ticks>>

(* enable_required_apis, lines 436-439 *)
required_services ==
    <<"geminicloudassist.googleapis.com", "cloudaicompanion.googleapis.com">>

(* the outcomes of the check GET, by name: get_async raises, or a response with its *)
(* status code and the "state" of its JSON body                                     *)
CheckResponses ==
    [ enabled    |-> [exc |-> FALSE, status_code |-> 200, state |-> "ENABLED"],
      disabled   |-> [exc |-> FALSE, status_code |-> 200, state |-> "DISABLED"],
      nostate    |-> [exc |-> FALSE, status_code |-> 200, state |-> Absent],
      forbidden  |-> [exc |-> FALSE, status_code |-> 403, state |-> Absent],
      checkerror |-> [exc |-> TRUE, status_code |-> 0, state |-> Absent] ]

(* the outcomes of the enable POST, by name: post_async raises, or a response with its *)
(* status code and whether its error message says "already enabled"                   *)
EnableResponses ==
    [ ok         |-> [exc |-> FALSE, status_code |-> 200, already |-> FALSE],
      created    |-> [exc |-> FALSE, status_code |-> 201, already |-> FALSE],
      already    |-> [exc |-> FALSE, status_code |-> 400, already |-> TRUE],
      badrequest |-> [exc |-> FALSE, status_code |-> 400, already |-> FALSE],
      servererr  |-> [exc |-> FALSE, status_code |-> 500, already |-> FALSE],
      posterror  |-> [exc |-> TRUE, status_code |-> 0, already |-> FALSE] ]

(* the check taking any 200 response for an enabled service *)
CheckSaysEnabled_status_only(check_response) ==
    ~check_response.exc /\ check_response.status_code = 200

(* enable_required_apis, lines 448-455: the check reports the service enabled *)
CheckSaysEnabled(check_response) ==
    /\ ~check_response.exc
    /\ check_response.status_code = 200
    /\ Get(check_response.state) = "ENABLED"

(* enable_required_apis, lines 441-448: the loop reaches service number i; past the *)
(* last one, line 476 returns True                                                  *)
EnableApisService(t, k, l, h, i) ==
    IF i > Len(required_services)
    THEN Finish(t, k, [l EXCEPT !.service = 0], h, Ret("True"))
    ELSE Ctl(t, "ea_check", k, [l EXCEPT !.service = i],
             [h EXCEPT !.trace = Append(@, Ev("check", i, 0, required_services[i]))], NoRes)

(* enable_required_apis on credential c, lines 424-448, up to its first await *)
EnterEnableApis(t, k, l, c, h) ==
    IF is_expired(c, now) /\ Truthy(c.refresh_token)
    THEN EnterRefresh(t, <<"ea_after_rf">> \o k, l, c, DefaultMaxRetries, DefaultBaseDelay, h)
    ELSE EnableApisService(t, k, l, h, 1)

(* enable_required_apis, lines 427-448 and 478-480: refresh() has returned or raised *)
EnableApisAfterRefresh(t) ==
    /\ pc[t] = "ea_after_rf"
    /\ IF res[t].kind = "exc"
       THEN Finish(t, stack[t], loc[t], hist[t], Ret("False"))
       ELSE EnableApisService(t, stack[t], loc[t], hist[t], 1)
    /\ UNCHANGED <<now, creds, sa, flow, calls, ticks>>

(* enable_required_apis, lines 448-460: the check GET is over; the service is skipped *)
(* or its enable POST is sent                                                         *)
EnableApisCheckResp(t) ==
    /\ pc[t] = "ea_check"
    /\ \E o \in DOMAIN CheckResponses :
          LET i == loc[t].service
              h == [hist[t] EXCEPT !.last = o]
          IN  IF CheckSaysEnabled(CheckResponses[o])
              THEN EnableApisService(t, stack[t], loc[t], h, i + 1)
              ELSE Ctl(t, "ea_enable", stack[t], loc[t],
                       [h EXCEPT !.trace = Append(@, Ev("enable", i, 0, required_services[i]))],
                       NoRes)
    /\ UNCHANGED <<now, creds, sa, flow, calls, ticks>>

(* enable_required_apis, lines 460-474: the enable POST is over, whatever its outcome; *)
(* the loop goes on                                                                    *)
EnableApisEnableResp(t) ==
    /\ pc[t] = "ea_enable"
    /\ \E o \in DOMAIN EnableResponses :
          EnableApisService(t, stack[t], loc[t], [hist[t] EXCEPT !.last = o], loc[t].service + 1)
    /\ UNCHANGED <<now, creds, sa, flow, calls, ticks>>

(* a caller calls enable_required_apis(credentials, project_id) *)
CallEnableApis(t) ==
    /\ CanCallEnable(t)
    /\ EnterEnableApis(t, <<>>, [Loc0 EXCEPT !.self = "shared"], creds["shared"],
                       Begin("enable_required_apis", "shared", DefaultArgs))
    /\ calls' = calls + 1
    /\ UNCHANGED <<now, creds, sa, flow, ticks>>

(* the projects that callers pass to select_default_project, in lists of up to *)
(* MaxProjects                                                                 *)
SelectPool ==
    { Project(Has(<<"p","r","o","j","-","1">>), Missing, "ACTIVE"),
      Project(Has(<<"p","r","o","j","-","2">>), Has(<<"T","w","o">>), "ACTIVE"),
      Project(Has(<<"m","y","-","d","e","f","a","u","l","t","-","p","r","o","j">>), Missing, "ACTIVE"),
      Project(Has(<<"p","r","o","j","-","4">>), Has(<<"T","h","e"," ","D","e","f","a","u","l","t">>), "ACTIVE"),
      Project(Has(<<"X","-","D","E","F","A","U","L","T">>), Has(<<>>), "ACTIVE"),
      Project(Missing, Has(<<"d","e","f","a","u","l","t">>), "ACTIVE") }

ProjectLists == UNION {[1..n -> SelectPool] : n \in 0..MaxProjects}

default == <<"d","e","f","a","u","l","t">>

(* the test of line 535 with the project id taken as it is, not lower-cased *)
IsDefault_id_as_is(project) ==
    LET display_name == lower(GetOr(project.displayName, <<>>))
        project_id == GetOr(project.projectId, <<>>)
    IN  Contains(default, display_name) \/ Contains(default, project_id)

(* select_default_project, lines 533-535: the test of one project *)
IsDefault(project) ==
    LET display_name == lower(GetOr(project.displayName, <<>>))
        project_id == GetOr(project.projectId, <<>>)
    IN  Contains(default, display_name) \/ Contains(default, lower(project_id))

(* select_default_project, lines 532-537: the loop from index i on; Missing if no *)
(* project passes the test                                                        *)
RECURSIVE FirstDefault(_, _)
FirstDefault(projects, i) ==
    IF i > Len(projects) THEN Missing
    ELSE IF IsDefault(projects[i]) THEN Has(GetOr(projects[i].projectId, <<>>))
    ELSE FirstDefault(projects, i + 1)

(* select_default_project: Missing for None, Has(project_id) for a project id *)
select_default_project(projects) ==
    IF projects = <<>> THEN Missing
    ELSE IF FirstDefault(projects, 1) # Missing THEN FirstDefault(projects, 1)
    ELSE Has(GetOr(projects[1].projectId, <<>>))

(* a caller calls select_default_project(projects); the coroutine has no await *)
CallSelectDefaultProject(t) ==
    /\ pc[t] = "idle" /\ calls = 0
    /\ Finish(t, <<>>, loc[t], Begin("select_default_project", "shared", loc[t].projects),
              RetList(select_default_project(loc[t].projects)))
    /\ calls' = calls + 1
    /\ UNCHANGED <<now, creds, sa, flow, ticks>>

-----------------------------------------------------------------------------
(* Initial states: the objects as their constructors leave them *)

CredIds == {"shared"} \cup Tasks

InitCreds ==
    {Credentials("at0", rt, "cid", "secret", e, "proj") :
        rt \in {None, "", "rt0"}, e \in {NoTime} \cup {UTC(BufferSeconds + d) : d \in 0..1}}

Init ==
    /\ now = 0
    /\ \E c \in InitCreds : creds = [o \in CredIds |-> IF o = "shared" THEN c ELSE NoCred]
    /\ sa = [email |-> "sa@proj", private_key |-> "pem", project_id |-> "proj", scopes |-> <<>>,
                token_endpoint |-> NoUrl, access_token |-> None, expires_at |-> NoTime]
    /\ flow = [client_id |-> "cid", client_secret |-> "secret", credentials |-> <<>>]
    /\ pc = [t \in Tasks |-> "idle"]
    /\ stack = [t \in Tasks |-> <<>>]
    /\ res = [t \in Tasks |-> NoRes]
    /\ loc = [t \in Tasks |-> Loc0]
    /\ hist = [t \in Tasks |-> Begin("none", "shared", DefaultArgs)]
    /\ calls = 0
    /\ ticks = 0

(* the calls on the user credential *)
Step(t) ==
    \/ CallRefresh(t)
    \/ CallRefreshIfNeeded(t)
    \/ CallIsExpired(t)
    \/ RefreshSend(t)
    \/ RefreshRespError(t)
    \/ RefreshRespBody(t)
    \/ RefreshWake(t)
    \/ RefreshIfNeededRet(t)

Next == (\E t \in SeqTasks : Step(t)) \/ Tick

Spec == Init /\ [][Next]_vars

(* the calls on the Flow and the ServiceAccount, and both is_expired *)
StepToken(t) ==
    \/ CallIsExpired(t)
    \/ CallSAIsExpired(t)
    \/ CallExchangeCode(t)
    \/ ExchangeCodeRespError(t)
    \/ ExchangeCodeRespBody(t)
    \/ CallGetAccessToken(t)
    \/ GetAccessTokenRespError(t)
    \/ GetAccessTokenRespBody(t)

NextToken == (\E t \in SeqTasks : StepToken(t)) \/ Tick

SpecToken == Init /\ [][NextToken]_vars

(* the helper calls that look up the user of a credential *)
StepInfo(t) ==
    \/ CallUserInfo(t)
    \/ CallUserEmail(t)
    \/ CallEmailFromFile(t)
    \/ RefreshSend(t)
    \/ RefreshRespError(t)
    \/ RefreshRespBody(t)
    \/ RefreshWake(t)
    \/ RefreshIfNeededRet(t)
    \/ UserInfoSend(t)
    \/ UserInfoRespError(t)
    \/ UserInfoRespBody(t)
    \/ UserEmailAfterRefresh(t)
    \/ UserEmailAfterInfo(t)
    \/ EmailFromFileRet(t)

NextInfo == (\E t \in SeqTasks : StepInfo(t)) \/ Tick

SpecInfo == Init /\ [][NextInfo]_vars

(* get_user_projects and the refresh it may start *)
StepProjects(t) ==
    \/ CallUserProjects(t)
    \/ RefreshSend(t)
    \/ RefreshRespError(t)
    \/ RefreshRespBody(t)
    \/ RefreshWake(t)
    \/ UserProjectsAfterRefresh(t)
    \/ UserProjectsRespError(t)
    \/ UserProjectsResp(t)

NextProjects == (\E t \in SeqTasks : StepProjects(t)) \/ Tick

SpecProjects == Init /\ [][NextProjects]_vars

(* enable_required_apis and the refresh it may start *)
StepEnable(t) ==
    \/ CallEnableApis(t)
    \/ RefreshSend(t)
    \/ RefreshRespError(t)
    \/ RefreshRespBody(t)
    \/ RefreshWake(t)
    \/ EnableApisAfterRefresh(t)
    \/ EnableApisCheckResp(t)
    \/ EnableApisEnableResp(t)

NextEnable == (\E t \in SeqTasks : StepEnable(t)) \/ Tick

SpecEnable == Init /\ [][NextEnable]_vars

(* select_default_project, applied to a list of projects *)
InitSelect ==
    /\ now = 0
    /\ creds = [o \in CredIds |-> NoCred]
    /\ sa = [email |-> "sa@proj", private_key |-> "pem", project_id |-> "proj", scopes |-> <<>>,
                token_endpoint |-> NoUrl, access_token |-> None, expires_at |-> NoTime]
    /\ flow = [client_id |-> "cid", client_secret |-> "secret", credentials |-> <<>>]
    /\ pc = [t \in Tasks |-> "idle"]
    /\ stack = [t \in Tasks |-> <<>>]
    /\ res = [t \in Tasks |-> NoRes]
    /\ \E projects \in ProjectLists :
          loc = [t \in Tasks |-> IF t \in SeqTasks THEN [Loc0 EXCEPT !.projects = projects] ELSE Loc0]
    /\ hist = [t \in Tasks |-> Begin("none", "shared", DefaultArgs)]
    /\ calls = 0
    /\ ticks = 0

NextSelect == \E t \in SeqTasks : CallSelectDefaultProject(t)

SpecSelect == InitSelect /\ [][NextSelect]_vars

(* from_dict applied to a record, and to_dict followed by from_dict applied to a credential *)
InitDict ==
    /\ now = 0
    /\ sa = [email |-> "sa@proj", private_key |-> "pem", project_id |-> "proj", scopes |-> <<>>,
                token_endpoint |-> NoUrl, access_token |-> None, expires_at |-> NoTime]
    /\ flow = [client_id |-> "cid", client_secret |-> "secret", credentials |-> <<>>]
    /\ pc = [t \in Tasks |-> "idle"]
    /\ stack = [t \in Tasks |-> <<>>]
    /\ res = [t \in Tasks |-> NoRes]
    /\ \/ /\ \E c \in DictCreds : creds = [o \in CredIds |-> IF o = "shared" THEN c ELSE NoCred]
          /\ loc = [t \in Tasks |-> Loc0]
       \/ /\ creds = [o \in CredIds |-> NoCred]
          /\ \E tk \in {<<"at0", Absent>>, <<Absent, "at0">>, <<Absent, Absent>>, <<"", "at1">>},
                e \in ExpiryStrings :
                loc = [t \in Tasks |->
                          IF t \in SeqTasks
                          THEN [Loc0 EXCEPT !.data = <<RecordOf(tk[1], tk[2], "rt0", e)>>]
                          ELSE Loc0]
    /\ hist = [t \in Tasks |-> Begin("none", "shared", DefaultArgs)]
    /\ calls = 0
    /\ ticks = 0

NextDict == \E t \in SeqTasks : CallToDict(t) \/ CallFromDict(t)

SpecDict == InitDict /\ [][NextDict]_vars

(* two callers at once on the one user credential; the clock moves with their sleeps *)
StepConc(t) ==
    \/ ConcCallRefresh(t)
    \/ ConcCallRefreshIfNeeded(t)
    \/ RefreshSend(t)
    \/ RefreshRespError(t)
    \/ RefreshRespBody(t)
    \/ RefreshWake(t)
    \/ RefreshIfNeededRet(t)

NextConc == \E t \in Tasks : StepConc(t)

(* the credential the callers share has just expired: its expiry is 3 minutes ahead *)
InitConc == Init /\ creds["shared"].expires_at = UTC(BufferSeconds)

SpecConc == InitConc /\ [][NextConc]_vars

-----------------------------------------------------------------------------
(* What the properties below speak of: the one caller of the sequential     *)
(* specifications, its current call, and the events of that call.           *)

H == hist["t1"]
Over == pc["t1"] = "idle" /\ H.op # "none"
InRefresh == pc["t1"] \in {"rf_send", "rf_wait", "rf_sleep"}

Events(kind) == {i \in DOMAIN H.trace : H.trace[i].ev = kind}
LastEvent == H.trace[Len(H.trace)]

Raised(ty) == H.result.kind = "exc" /\ H.result.etype = ty
Returned(v) == H.result.kind = "ret" /\ H.result.val = v

(* the messages of the model that contain one of the seven markers, whatever the case *)
MarkedMsgs == {"http400", "grant", "rtexpired", "rtinvalid", "client", "denied", "http401"}

(* expired at clock n: no expiry, or an expiry at most three minutes after n *)
ExpiredAt(e, n) == e = NoTime \/ e[1].inst <= n + 3 * 60

(* C1: in refresh, a failed attempt whose error message contains a non-retryable       *)
(* marker, in any case and at any attempt index, ends the call at once: the failure is *)
(* the last event of the call, no request and no sleep follows it, and the call raises *)
(* TokenError; at attempt 0 that is one request and no sleep.                          *)
C1_NonRetryableEndsCall ==
    (H.op \in {"refresh", "refresh_if_needed"} /\ H.last \in MarkedMsgs) =>
        /\ ~InRefresh
        /\ LastEvent.ev = "fail"
        /\ H.trace[Len(H.trace) - 1].ev = "req"
        /\ Cardinality(Events("req")) = LastEvent.k + 1
        /\ Cardinality(Events("sleep")) = LastEvent.k
        /\ LastEvent.k = 0 => H.trace = <<Ev("req", 0, 0, H.pre.cred.refresh_token),
                                           Ev("fail", 0, 0, H.pre.cred.refresh_token)>>
        /\ Over => Raised("TokenError")

(* C1 witness: refresh(3, 1) ended by an upper-case marker on its second attempt *)
C1_Witness ==
    /\ Over /\ H.op = "refresh" /\ H.args = <<3, 1>>
    /\ H.last = "rtexpired" /\ LastEvent.k = 1 /\ Len(H.trace) = 5
    /\ Raised("TokenError")

(* C2: refresh(maxRetries, baseDelay) makes its attempts in order 0..maxRetries, each  *)
(* one request; after a failed attempt k < maxRetries it sleeps baseDelay * 2^k and    *)
(* goes on; a successful attempt is the last event and the call returns; the failure   *)
(* of attempt maxRetries is followed by no sleep and the call raises TokenError; so at *)
(* most maxRetries + 1 requests are sent, and a call under way can always take a step. *)
C2_RetrySchedule ==
    H.op = "refresh" =>
        LET mr == H.args[1]
            bd == H.args[2]
            n == Len(H.trace)
        IN  /\ \A i \in 1..n :
                  LET e == H.trace[i]
                      k == (i - 1) \div 3
                      r == (i - 1) % 3
                  IN  /\ e.k = k /\ k <= mr
                      /\ r = 0 => e.ev = "req"
                      /\ r = 1 => e.ev \in {"fail", "ok"}
                      /\ r = 2 => /\ e.ev = "sleep" /\ H.trace[i - 1].ev = "fail"
                                  /\ k < mr /\ e.d = bd * 2 ^ k
                      /\ e.ev = "ok" => i = n
            /\ Cardinality(Events("req")) <= mr + 1
            /\ (n > 0 /\ LastEvent.ev = "fail") => (LastEvent.k = mr \/ H.last \in MarkedMsgs)
            /\ (n > 0 /\ LastEvent.ev \in {"fail", "ok"}) => Over
            /\ Over => \/ n > 0 /\ LastEvent.ev = "ok" /\ Returned(None)
                       \/ n > 0 /\ LastEvent.ev = "fail" /\ Raised("TokenError")
                       \/ n = 0 /\ ~Truthy(H.pre.cred.refresh_token) /\ Raised("TokenError")
            /\ ~Over => ENABLED Step("t1")

(* C2 witness: refresh(3, 1), every attempt timing out: 4 requests, sleeps 1, 2, 4, TokenError *)
C2_Witness ==
    /\ Over /\ H.op = "refresh" /\ H.args = <<3, 1>> /\ H.last = "timeout"
    /\ Cardinality(Events("req")) = 4
    /\ [i \in 1..3 |-> H.trace[3 * i].d] = <<1, 2, 4>>
    /\ Len(H.trace) = 11 /\ Raised("TokenError")
    /\ now >= H.t0 + 7

(* C3: is_expired of a user credential and of a service account is true when           *)
(* expires_at is absent or at most now + 3 minutes (that instant included), false when *)
(* it is later, and changes no field.                                                  *)
C3_IsExpired ==
    /\ (Over /\ H.op = "is_expired") =>
          /\ Returned("True") <=> ExpiredAt(H.pre.cred.expires_at, H.t0)
          /\ Returned("False") <=> ~ExpiredAt(H.pre.cred.expires_at, H.t0)
          /\ creds["shared"] = H.pre.cred
    /\ (Over /\ H.op = "sa_is_expired") =>
          /\ Returned("True") <=> ExpiredAt(H.pre.sa.expires_at, H.t0)
          /\ Returned("False") <=> ~ExpiredAt(H.pre.sa.expires_at, H.t0)
          /\ sa = H.pre.sa

(* C3 witness: a service account whose token expires exactly 3 minutes after the call is expired *)
C3_Witness ==
    /\ Over /\ H.op = "sa_is_expired" /\ Returned("True")
    /\ sa.expires_at # NoTime /\ sa.expires_at[1].inst = H.t0 + 180 /\ H.t0 > 0

(* C4: refresh_if_needed sends a token request only when the credential is expired and *)
(* holds a refresh_token; not expired, it returns false, sends nothing and changes     *)
(* nothing; expired without refresh_token, it raises TokenError, sends nothing and     *)
(* changes nothing; it returns true only after a refresh succeeded.                    *)
C4_RefreshIfNeeded ==
    H.op = "refresh_if_needed" =>
        LET expired == ExpiredAt(H.pre.cred.expires_at, H.t0)
            holds == Truthy(H.pre.cred.refresh_token)
        IN  /\ H.trace # <<>> => (expired /\ holds)
            /\ ~expired => /\ Over /\ Returned("False")
                           /\ H.trace = <<>> /\ creds["shared"] = H.pre.cred
            /\ (expired /\ ~holds) => /\ Over /\ Raised("TokenError")
                                      /\ H.trace = <<>> /\ creds["shared"] = H.pre.cred
            /\ (Over /\ Returned("True")) => (H.trace # <<>> /\ LastEvent.ev = "ok")
            /\ (Over /\ H.result.kind = "ret") => H.result.val \in {"True", "False"}

(* C4 witness: an expired credential without refresh_token: TokenError and no request *)
C4_Witness ==
    /\ Over /\ H.op = "refresh_if_needed" /\ Raised("TokenError") /\ H.trace = <<>>
    /\ H.pre.cred.expires_at # NoTime /\ H.pre.cred.refresh_token = None

(* C5: when refresh succeeds, access_token is the response's; expires_at, when the     *)
(* response carries expires_in, is the time the response was processed plus            *)
(* expires_in; refresh_token is the response's if it carries one and the previous one  *)
(* otherwise; client_id, client_secret and project_id are unchanged.                   *)
C5_RefreshSuccess ==
    (Over /\ H.op = "refresh" /\ H.result.kind = "ret") =>
        LET c == creds["shared"]
            b == H.okBody
        IN  /\ c.access_token = b.access_token /\ b.access_token # Absent
            /\ b.expires_in # <<>> =>
                  (c.expires_at # NoTime /\ c.expires_at[1].inst = H.okAt + b.expires_in[1].v)
            /\ c.refresh_token = IF b.refresh_token # Absent THEN b.refresh_token
                                 ELSE H.pre.cred.refresh_token
            /\ c.client_id = H.pre.cred.client_id
            /\ c.client_secret = H.pre.cred.client_secret
            /\ c.project_id = H.pre.cred.project_id

(* C5 witness: success on the third attempt, after two sleeps and a tick, no new refresh_token *)
C5_Witness ==
    /\ Over /\ H.op = "refresh" /\ H.result.kind = "ret" /\ LastEvent.k = 2
    /\ H.okBody.refresh_token = Absent /\ creds["shared"].refresh_token = "rt0"
    /\ H.okAt > H.t0 + 3 /\ creds["shared"].expires_at = UTC(H.okAt + 181)

(* C6: whenever refresh or refresh_if_needed ends in TokenError, access_token,         *)
(* refresh_token and expires_at are what they were before the call.                    *)
C6_NoPartialState ==
    (Over /\ H.op \in {"refresh", "refresh_if_needed"} /\ Raised("TokenError")) =>
        /\ creds["shared"].access_token = H.pre.cred.access_token
        /\ creds["shared"].refresh_token = H.pre.cred.refresh_token
        /\ creds["shared"].expires_at = H.pre.cred.expires_at

(* C7: get_access_token sends a request if and only if no access_token is cached or    *)
(* the cached one is expired under the 3-minute rule; otherwise it returns the cached  *)
(* token and changes nothing, so a second call right after a successful one, before    *)
(* the token expires, sends nothing.                                                   *)
C7_ServiceAccountCache ==
    H.op = "get_access_token" =>
        LET stale == ~Truthy(H.pre.sa.access_token) \/ ExpiredAt(H.pre.sa.expires_at, H.t0)
        IN  /\ H.trace # <<>> <=> stale
            /\ ~stale => /\ Over /\ Returned(H.pre.sa.access_token) /\ sa = H.pre.sa

(* C7 witness: the second of two calls, served from the cache the first one filled *)
C7_Witness ==
    /\ Over /\ H.op = "get_access_token" /\ H.trace = <<>> /\ calls = 2
    /\ Returned("at1") /\ sa.access_token = "at1" /\ flow.credentials = <<>>

(* C8: exchange_code and get_access_token send at most one token request per call and  *)
(* never sleep, and every failure of that attempt, whatever its cause, raises          *)
(* TokenError and nothing else.                                                        *)
C8_SingleAttempt ==
    H.op \in {"exchange_code", "get_access_token"} =>
        /\ Cardinality(Events("req")) <= 1
        /\ Events("sleep") = {}
        /\ Events("fail") # {} => (Over /\ Raised("TokenError") /\ Len(H.trace) = 2)
        /\ (Over /\ H.result.kind = "exc") => H.result.etype = "TokenError"

(* C8 witness: exchange_code fails on a body whose expires_in is no number *)
C8_Witness ==
    /\ Over /\ H.op = "exchange_code" /\ Raised("TokenError") /\ H.last = "ValueError"
    /\ H.trace = <<Ev("req", 0, 0, None), Ev("fail", 0, 0, None)>>

(* C9: get_user_info never raises: it returns None on any failure, the failure of its  *)
(* refresh_if_needed step included.                                                    *)
C9_UserInfoNeverRaises ==
    (Over /\ H.op = "get_user_info") => H.result.kind = "ret"

(* C10: get_user_email and fetch_user_email_from_file never raise; they return the     *)
(* email of the user info when the lookup succeeded and the email is present and not   *)
(* empty, and None otherwise; fetch_user_email_from_file sends nothing when the record *)
(* yields no access token.                                                             *)
C10_UserEmail ==
    (Over /\ H.op \in {"get_user_email", "fetch_user_email_from_file"}) =>
        /\ H.result.kind = "ret"
        /\ H.result.val = IF H.okInfo.email \notin {Absent, None, ""} THEN H.okInfo.email ELSE None
        /\ (Events("get") = {}) => H.okInfo = NoInfo
        /\ (H.op = "fetch_user_email_from_file" /\ H.pre.cred.access_token \in {None, ""}) =>
              (H.trace = <<>> /\ Returned(None))

(* C10 witness: get_user_email returns None because the refresh it needed failed *)
C10_Witness ==
    /\ Over /\ H.op = "get_user_email" /\ Returned(None)
    /\ H.trace # <<>> /\ LastEvent.ev = "fail" /\ Events("get") = {}

(* the elements of ps that satisfy lifecycleState = "ACTIVE", in the order of ps *)
ActiveIdx(ps) == {i \in DOMAIN ps : ps[i].lifecycleState = "ACTIVE"}
ActiveInOrder(ps) ==
    [j \in 1..Cardinality(ActiveIdx(ps)) |->
        ps[CHOOSE i \in ActiveIdx(ps) : Cardinality({x \in ActiveIdx(ps) : x <= i}) = j]]

(* C11: get_user_projects never raises; it sends token requests only when the          *)
(* credential is expired and holds a refresh_token; expired without refresh_token it   *)
(* attempts no refresh and sends the projects GET with the token it holds; it returns  *)
(* the ACTIVE projects of a 200 response in response order, and the empty list when    *)
(* the refresh fails, the GET fails or the status is not 200.                          *)
C11_UserProjects ==
    H.op = "get_user_projects" =>
        LET expired == ExpiredAt(H.pre.cred.expires_at, H.t0)
            holds == Truthy(H.pre.cred.refresh_token)
            gets == Events("get")
        IN  /\ Events("req") # {} => (expired /\ holds)
            /\ Over => (Events("req") # {} <=> (expired /\ holds))
            /\ ~(expired /\ holds) =>
                  /\ H.trace # <<>> /\ H.trace[1] = Ev("get", 0, 0, H.pre.cred.access_token)
                  /\ creds["shared"] = H.pre.cred
            /\ Cardinality(gets) <= 1
            /\ \A i \in gets : /\ i = Len(H.trace)
                               /\ H.trace[i].rt = creds["shared"].access_token
                               /\ i > 1 => H.trace[i - 1].ev = "ok"
            /\ Over =>
                  /\ H.result.kind = "ret" /\ H.result.val = "list"
                  /\ H.result.list = IF H.okResp.status = 200
                                     THEN ActiveInOrder(H.okResp.projects)
                                     ELSE <<>>
                  /\ H.okResp # NoResponse => gets # {}

(* C11 witness: an expired credential without refresh_token: no token request, the GET *)
(* sent with the old token, two of three projects returned in response order           *)
C11_Witness ==
    /\ Over /\ H.op = "get_user_projects"
    /\ H.pre.cred.expires_at = NoTime /\ H.pre.cred.refresh_token = None
    /\ H.trace = <<Ev("get", 0, 0, "at0")>>
    /\ H.okResp.projects = <<p4, p3, p1>> /\ H.result.list = <<p4, p1>>

(* the check outcomes that report status 200 with state ENABLED, and the others *)
ReportsEnabled == {"enabled"}
ReportsNotEnabled == {"disabled", "nostate", "forbidden", "checkerror"}
EnableOutcomes == {"ok", "created", "already", "badrequest", "servererr", "posterror"}

(* the events of the service loop: what follows the refresh, if any *)
ServiceEvents == SelectSeq(H.trace, LAMBDA e : e.ev \in {"check", "enable"})

(* C12: enable_required_apis handles its two services in their fixed order; for each, *)
(* the enable POST is sent exactly when the check GET did not report status 200 with  *)
(* state ENABLED (a failed check included); whatever the check and the enable of the  *)
(* first service do, the second service is processed; the call then returns true; it  *)
(* returns false only when the refresh at its start fails, before any service.        *)
C12_EnableApis ==
    H.op = "enable_required_apis" =>
        LET se == ServiceEvents
            n == Len(se)
            svc == loc["t1"].service
        IN  /\ \A i \in 1..n :
                  /\ se[i].rt = required_services[se[i].k]
                  /\ se[i].ev = "enable" => (i > 1 /\ se[i - 1] = Ev("check", se[i].k, 0, se[i].rt))
                  /\ se[i].ev = "check" => se[i].k = 1 + Cardinality({j \in 1..(i - 1) : se[j].ev = "check"})
            /\ n > 0 => se[1].ev = "check"
            /\ pc["t1"] = "ea_check" => (H.trace[Len(H.trace)] = Ev("check", svc, 0, required_services[svc]))
            /\ pc["t1"] = "ea_enable" =>
                  /\ H.trace[Len(H.trace)] = Ev("enable", svc, 0, required_services[svc])
                  /\ H.last \in ReportsNotEnabled
            /\ (n > 0 /\ H.last \in ReportsEnabled) =>
                  /\ se[n].ev = "check"
                  /\ IF Over THEN se[n].k = 2 ELSE (pc["t1"] = "ea_check" /\ se[n].k = 2 /\ n > 1)
            /\ (n > 0 /\ H.last \in ReportsNotEnabled) => pc["t1"] = "ea_enable"
            /\ (n > 0 /\ H.last \in EnableOutcomes) =>
                  /\ IF Over THEN se[n] = Ev("enable", 2, 0, required_services[2])
                     ELSE /\ pc["t1"] \in {"ea_check"} /\ svc = 2
                          /\ se[n - 1] = Ev("enable", 1, 0, required_services[1])
            /\ Over =>
                  /\ H.result.kind = "ret" /\ H.result.val \in {"True", "False"}
                  /\ Returned("True") <=> (n > 0 /\ \E i \in 1..n : se[i] = Ev("check", 2, 0, required_services[2]))
                  /\ Returned("False") <=> (n = 0 /\ H.trace # <<>> /\ LastEvent.ev = "fail")
            /\ ~Over => ENABLED StepEnable("t1")

(* C12 witness: the first service was not reported enabled, its enable POST raised, *)
(* and the check of the second service is under way                                *)
C12_Witness ==
    /\ H.op = "enable_required_apis" /\ pc["t1"] = "ea_check" /\ loc["t1"].service = 2
    /\ H.last = "posterror"
    /\ H.trace = <<Ev("check", 1, 0, required_services[1]), Ev("enable", 1, 0, required_services[1]),
                   Ev("check", 2, 0, required_services[2])>>

(* the string s contains "default" in some mix of upper and lower case *)
SaysDefault(s) ==
    \E i \in 0..(Len(s) - 7) :
        \A j \in 1..7 : s[i + j] \in {<<"d","e","f","a","u","l","t">>[j], <<"D","E","F","A","U","L","T">>[j]}

(* the display name or the id of project p says "default" *)
NamedDefault(p) ==
    \/ p.displayName # <<>> /\ SaysDefault(p.displayName[1])
    \/ p.projectId # <<>> /\ SaysDefault(p.projectId[1])

IdOf(p) == IF p.projectId = <<>> THEN <<>> ELSE p.projectId[1]

(* C13: select_default_project returns None for the empty list; otherwise the id of   *)
(* the first project of the list whose display name or id contains "default" in any   *)
(* case, and the id of the first project when there is none.                          *)
C13_SelectDefaultProject ==
    (Over /\ H.op = "select_default_project") =>
        LET ps == H.args
            m == {i \in DOMAIN ps : NamedDefault(ps[i])}
            first == CHOOSE i \in m : \A j \in m : i <= j
        IN  /\ H.result.kind = "ret"
            /\ ps = <<>> => H.result.list = <<>>
            /\ (ps # <<>> /\ m # {}) => H.result.list = <<IdOf(ps[first])>>
            /\ (ps # <<>> /\ m = {}) => H.result.list = <<IdOf(ps[1])>>

(* C13 witness: ids "proj-1", "my-default-proj" give "my-default-proj" *)
C13_Witness ==
    /\ Over /\ H.op = "select_default_project" /\ Len(H.args) = 2
    /\ H.args[1].projectId = <<<<"p","r","o","j","-","1">>>>
    /\ H.args[2].projectId = <<<<"m","y","-","d","e","f","a","u","l","t","-","p","r","o","j">>>>
    /\ H.result.list = <<<<"m","y","-","d","e","f","a","u","l","t","-","p","r","o","j">>>>

(* the record that from_dict was applied to, and the credential it built *)
Parsed == H.op = "from_dict" /\ Over
Built == creds["t1"]
Given == loc["t1"].data[1]

(* C14: from_dict(to_dict(c)) has c's access_token, refresh_token, client_id,          *)
(* client_secret and project_id and an expires_at that denotes the instant of c's to   *)
(* within a second, whatever the UTC offset of c's expires_at; when c has no           *)
(* expires_at the record has no expiry and neither has the credential built from it.   *)
C14_RoundTrip ==
    (Parsed /\ calls = 2) =>
        LET c == creds["shared"]
        IN  /\ Built.access_token = c.access_token
            /\ Built.refresh_token = c.refresh_token
            /\ Built.client_id = c.client_id
            /\ Built.client_secret = c.client_secret
            /\ Built.project_id = c.project_id
            /\ c.expires_at = NoTime => (Given.expiry.shape = "absent" /\ Built.expires_at = NoTime)
            /\ c.expires_at # NoTime =>
                  /\ Built.expires_at # NoTime
                  /\ Built.expires_at[1].inst - c.expires_at[1].inst \in -1..1

(* C15: from_dict parses the expiry string of the record to the instant it denotes: a  *)
(* Z-suffixed string as UTC, a string with a positive or negative offset at that       *)
(* offset, a naive string as UTC; a malformed string gives a credential without        *)
(* expires_at, which is_expired reports expired, and from_dict does not fail.          *)
C15_ExpiryParsing ==
    (Parsed /\ calls = 1) =>
        LET e == Given.expiry
        IN  /\ H.result.kind = "ret"
            /\ e.shape \in {"Z", "naive"} => Built.expires_at = UTC(e.local)
            /\ e.shape \in {"plus", "minus"} =>
                  (Built.expires_at # NoTime /\ Built.expires_at[1].inst = e.local - e.off)
            /\ e.shape = "bad" => (Built.expires_at = NoTime /\ is_expired(Built, now))

(* a caller has a refresh under way *)
Refreshing(t) == pc[t] \in {"rf_send", "rf_wait", "rf_sleep"}

(* C16: refreshes of one credential are not deduplicated: a caller of refresh_if_needed *)
(* that finds the credential expired with a refresh_token, and a caller of refresh on  *)
(* a credential with a refresh_token, goes on to its own token request whatever the    *)
(* other caller is doing, and is never held back while the other has one under way.    *)
C16_NotDeduplicated ==
    \A t \in Tasks :
        LET h == hist[t]
            holds == Truthy(h.pre.cred.refresh_token)
            expired == ExpiredAt(h.pre.cred.expires_at, h.t0)
        IN  /\ ((h.op = "refresh_if_needed" /\ expired /\ holds) \/ (h.op = "refresh" /\ holds)) =>
                  \/ pc[t] = "rf_send" /\ h.trace = <<>>
                  \/ h.trace # <<>> /\ h.trace[1] = Ev("req", 0, 0, h.pre.cred.refresh_token)
            /\ (pc[t] = "rf_send" /\ \E u \in Tasks \ {t} : Refreshing(u)) => ENABLED RefreshSend(t)

(* C16 witness: both callers of refresh_if_needed found the untouched credential expired *)
(* and both have their first token request in flight                                    *)
C16_Witness ==
    /\ \A t \in Tasks :
          /\ pc[t] = "rf_wait" /\ hist[t].op = "refresh_if_needed"
          /\ hist[t].trace = <<Ev("req", 0, 0, "rt0")>>
          /\ ExpiredAt(hist[t].pre.cred.expires_at, hist[t].t0)
    /\ creds["shared"] = hist["t1"].pre.cred

(* C20: whenever a refresh call sends a token request, on its first attempt or on a    *)
(* retry, the request carries the refresh_token the credential holds at that moment.   *)
C20_RequestCarriesCurrentToken ==
    [][\A t \in Tasks :
          (pc[t] = "rf_send" /\ pc'[t] = "rf_wait") =>
              hist'[t].trace[Len(hist'[t].trace)] =
                  Ev("req", loc[t].attempt, 0, creds["shared"].refresh_token)]_vars

(* the assertion and the URL of the token request that get_access_token has in flight *)
Posted == loc["t1"].assertion[1]
PostedTo == loc["t1"].token_url

(* the scopes, joined by single spaces *)
SpaceJoined(scopes) ==
    LET RECURSIVE J(_)
        J(i) == IF i > Len(scopes) THEN <<>>
                ELSE IF i = Len(scopes) THEN scopes[i]
                ELSE scopes[i] \o <<" ">> \o J(i + 1)
    IN  J(1)

(* C17: every assertion that get_access_token posts has iss = the account email, scope *)
(* = the scopes joined by spaces (empty if none), exp = iat + 3600, and aud = the      *)
(* token endpoint it is posted to; it is built for this exchange, at the time of the   *)
(* call, and none is kept on the account.                                              *)
C17_Assertion ==
    (H.op = "get_access_token" /\ pc["t1"] = "sa_wait") =>
        /\ Posted.payload.iss = sa.email
        /\ Posted.payload.scope = SpaceJoined(sa.scopes)
        /\ Posted.payload.exp = Posted.payload.iat + 3600
        /\ Posted.payload.iat = H.t0
        /\ Posted.payload.aud = <<PostedTo>>
        /\ PostedTo \in {TokenUrl(b) : b \in OAuthBaseUrls}

(* the expiry that token response b, processed at time n, gives its access token *)
ExpiryOf(b, n) == IF b.expires_in # <<>> THEN UTC(n + b.expires_in[1].v) ELSE NoTime

(* C18: after a successful refresh or get_access_token exchange, whatever the response *)
(* holds, access_token and expires_at come from that one response: the expiry is the   *)
(* one the response gives, and an expiry computed for an earlier token is not kept     *)
(* when the response gives none.                                                       *)
C18_SameResponse ==
    /\ (Over /\ H.op \in {"refresh", "refresh_if_needed"} /\ H.trace # <<>> /\ LastEvent.ev = "ok") =>
          /\ creds["shared"].access_token = H.okBody.access_token
          /\ creds["shared"].expires_at = ExpiryOf(H.okBody, H.okAt)
    /\ (Over /\ H.op = "get_access_token" /\ H.trace # <<>> /\ LastEvent.ev = "ok") =>
          /\ sa.access_token = H.okBody.access_token
          /\ sa.expires_at = ExpiryOf(H.okBody, H.okAt)

(* C19: a credential that holds a refresh_token keeps holding one: no step of a        *)
(* refresh call, successful or failed, whatever the response, sets a present           *)
(* refresh_token to None.                                                              *)
C19_RefreshTokenKept ==
    [][creds["shared"].refresh_token # None => creds'["shared"].refresh_token # None]_vars

(* the call of caller t ended with a successful response, in the state given by its *)
(* history h                                                                         *)
Succeeded(h) == h.trace # <<>> /\ h.trace[Len(h.trace)].ev = "ok"

(* C21: with concurrent refresh calls on one credential and responses that carry       *)
(* expires_in, the fields are written by one response in one step: a step in which a   *)
(* response is processed either leaves the credential as it was or is a success that   *)
(* sets access_token, expires_at and refresh_token from that response; so what another *)
(* task can observe comes from a single response, and once all calls are over          *)
(* access_token and expires_at are those of the successful response processed last,    *)
(* or the initial ones when no call succeeded.                                         *)
C21_AtomicUpdate ==
    [][/\ \A t \in Tasks :
             (pc[t] = "rf_wait" /\ pc'[t] # "rf_wait") =>
                 LET h == hist'[t]
                     b == h.okBody
                     c == creds'["shared"]
                 IN  \/ creds' = creds /\ ~Succeeded(h)
                     \/ /\ Succeeded(h)
                        /\ b.expires_in # <<>> =>
                              /\ c.access_token = b.access_token
                              /\ c.expires_at = UTC(now + b.expires_in[1].v)
                              /\ c.refresh_token = IF b.refresh_token # Absent THEN b.refresh_token
                                                   ELSE creds["shared"].refresh_token
       /\ (\A t \in Tasks : pc'[t] = "idle" /\ hist'[t].op # "none") =>
             LET c == creds'["shared"]
                 won == {t \in Tasks : Succeeded(hist'[t])}
             IN  \/ \E t \in won : hist'[t].okBody.expires_in = <<>>
                 \/ /\ won = {}
                    /\ \E t \in Tasks : /\ c.access_token = hist'[t].pre.cred.access_token
                                        /\ c.expires_at = hist'[t].pre.cred.expires_at
                 \/ \E t \in won :
                        /\ \A u \in won : hist'[u].okAt <= hist'[t].okAt
                        /\ c.access_token = hist'[t].okBody.access_token
                        /\ c.expires_at = UTC(hist'[t].okAt + hist'[t].okBody.expires_in[1].v)]_vars

====
